---- MODULE Spec2Model ----
(***************************************************************************)
(* A model of rherkin: the evaluation of a Feature AST (src/src/ast.rs)    *)
(* and the feature-file grammar (src/src/parser.rs, src/src/parse_utils.rs) *)
(***************************************************************************)
EXTENDS Integers, Sequences, FiniteSets, TLC

VARIABLES
    text,          \* the input handed to parser::feature (<<>> when the AST is built directly)
    parsed,        \* what parser::feature returned: success, remaining input, history
    feature,       \* the Feature being evaluated
    pc,            \* position in Feature::eval / Scenario::eval
    call,          \* which call of Feature::eval is running (1, 2, ...)
    i,             \* index of the test case of the current loop iteration
    j,             \* index of the next step inside Scenario::eval
    context,       \* the Context owned by the running case
    ret,           \* the TestResult returned by the last Scenario::eval
    results,       \* the results vector of the running Feature::eval
    firstResults,  \* what the previous call of Feature::eval returned
    evaluated,     \* history: the Step::eval calls of the running Feature::eval
    factoryCalls   \* history: number of C::new() calls of the running Feature::eval

vars == <<text, parsed, feature, pc, call, i, j, context, ret, results,
          firstResults, evaluated, factoryCalls>>

----------------------------------------------------------------------------
(* Bounds *)

MaxCases == 2
MaxTotalSteps == 3
MaxCalls == 2

----------------------------------------------------------------------------
(* the value of parsed before parser::feature has run *)
NotParsed == [ok |-> FALSE, rest |-> <<>>, cats |-> <<>>]

(* Option<T>: None is the empty sequence, Some(x) the one-element sequence *)

None == <<>>
Some(x) == <<x>>

(* TestContext::new() of the sample context: no executed steps *)
NewContext == <<>>

(* Step::eval(&self, &mut C) -> bool for three host-defined steps.           *)
(*  Record: pushes its number, returns true (SampleStep).                   *)
(*  Reject: mutates the context, then returns false (Press(Plus) on a       *)
(*          calculator with fewer than two stack entries).                  *)
(*  Check:  leaves the context alone, true iff the last entry is its number *)
(*          (CheckDisplay).                                                 *)
StepEval(s, c) ==
    CASE s.kind = "Record" -> [ok |-> TRUE,  context |-> Append(c, s.num)]
      [] s.kind = "Reject" -> [ok |-> FALSE, context |-> Append(c, s.num)]
      [] s.kind = "Check"  -> [ok |-> Len(c) > 0 /\ c[Len(c)] = s.num, context |-> c]

(* Strings are sequences of characters; "" is <<>>. *)
StrBackgroundMarker == <<"<", "B", "a", "c", "k", "g", "r", "o", "u", "n", "d", ">">>

(* test_case_name of a Scenario's result: the name, or "" when there is none *)
NameOrEmpty(name) == IF name = None THEN <<>> ELSE name[1]

TestResult(name, pass, c) == [test_case_name |-> name, pass |-> pass, context |-> c]

(* Scenario::eval: the TestResult returned when a step returned false *)
FailResult(node, c) == TestResult(NameOrEmpty(node.name), FALSE, c)

PassResultNonEmpty(node, c) == TestResult(NameOrEmpty(node.name), node.steps # <<>>, c)

(* Scenario::eval: the TestResult returned when no step returned false *)
PassResult(node, c) == TestResult(NameOrEmpty(node.name), TRUE, c)

(* if let Some(TestCase::Background(ref bg)) = self.background *)
HasBackground(f) == f.background # None /\ f.background[1].variant = "Background"

BackgroundFailureKeepName(r) == r

BackgroundFailureReset(r) == [r EXCEPT !.test_case_name = StrBackgroundMarker, !.context = NewContext]

(* mut r @ TestResult { pass: false, ..} => r.test_case_name = StrBackgroundMarker.to_string() *)
BackgroundFailure(r) == [r EXCEPT !.test_case_name = StrBackgroundMarker]

BackgroundPassFresh(r) == NewContext

(* TestResult { pass: true, context: c, ..} => context = c *)
BackgroundPass(r) == r.context

(* the Scenario whose eval is running *)
Running == IF pc = "bg" THEN feature.background[1] ELSE feature.test_cases[i]

----------------------------------------------------------------------------
(* Feature::eval, one action per statement *)

(* pub fn eval(&self) -> Vec<TestResult<C>> { let mut results = vec![]; *)
EnterKeepResults ==
    /\ pc = "call"
    /\ i' = 1
    /\ evaluated' = <<>>
    /\ factoryCalls' = 0
    /\ pc' = "loop"
    /\ UNCHANGED <<text, parsed, feature, call, j, context, ret, results, firstResults>>

Enter ==
    /\ pc = "call"
    /\ results' = <<>>
    /\ i' = 1
    /\ evaluated' = <<>>
    /\ factoryCalls' = 0
    /\ pc' = "loop"
    /\ UNCHANGED <<text, parsed, feature, call, j, context, ret, firstResults>>

BeginCaseCarry ==
    /\ pc = "loop"
    /\ i <= Len(feature.test_cases)
    /\ factoryCalls' = factoryCalls + 1
    /\ j' = 1
    /\ pc' = IF HasBackground(feature) THEN "bg" ELSE "tc"
    /\ UNCHANGED <<text, parsed, feature, call, i, context, ret, results, firstResults,
                   evaluated>>

(* for tc in self.test_cases.iter() { let mut context = C::new(); if let ... *)
BeginCase ==
    /\ pc = "loop"
    /\ i <= Len(feature.test_cases)
    /\ context' = NewContext
    /\ factoryCalls' = factoryCalls + 1
    /\ j' = 1
    /\ pc' = IF HasBackground(feature) THEN "bg" ELSE "tc"
    /\ UNCHANGED <<text, parsed, feature, call, i, ret, results, firstResults, evaluated>>

EvalStepNoStop ==
    /\ pc \in {"bg", "tc"}
    /\ j <= Len(Running.steps)
    /\ LET r == StepEval(Running.steps[j], context)
       IN /\ context' = r.context
          /\ evaluated' = Append(evaluated, [case |-> i, of |-> pc, idx |-> j, ok |-> r.ok])
          /\ j' = j + 1
    /\ UNCHANGED <<text, parsed, feature, pc, call, i, ret, results, firstResults,
                   factoryCalls>>

(* Scenario::eval: one iteration of for s in self.steps.iter() *)
EvalStep ==
    /\ pc \in {"bg", "tc"}
    /\ j <= Len(Running.steps)
    /\ LET r == StepEval(Running.steps[j], context)
       IN /\ context' = r.context
          /\ evaluated' = Append(evaluated, [case |-> i, of |-> pc, idx |-> j, ok |-> r.ok])
          /\ IF r.ok
             THEN /\ j' = j + 1
                  /\ UNCHANGED <<pc, ret>>
             ELSE /\ ret' = Some(FailResult(Running, r.context))
                  /\ pc' = IF pc = "bg" THEN "bg_ret" ELSE "tc_ret"
                  /\ UNCHANGED j
    /\ UNCHANGED <<text, parsed, feature, call, i, results, firstResults, factoryCalls>>

(* Scenario::eval: the loop ran to its end *)
EvalEnd ==
    /\ pc \in {"bg", "tc"}
    /\ j > Len(Running.steps)
    /\ ret' = Some(PassResult(Running, context))
    /\ pc' = IF pc = "bg" THEN "bg_ret" ELSE "tc_ret"
    /\ UNCHANGED <<text, parsed, feature, call, i, j, context, results, firstResults,
                   evaluated, factoryCalls>>

(* match bg.eval(context) { pass: false => push, continue; pass: true => context = c } *)
MatchBackground ==
    /\ pc = "bg_ret"
    /\ IF ~ret[1].pass
       THEN /\ results' = Append(results, BackgroundFailure(ret[1]))
            /\ i' = i + 1
            /\ pc' = "loop"
            /\ UNCHANGED <<context, j>>
       ELSE /\ context' = BackgroundPass(ret[1])
            /\ j' = 1
            /\ pc' = "tc"
            /\ UNCHANGED <<results, i>>
    /\ ret' = None
    /\ UNCHANGED <<text, parsed, feature, call, firstResults, evaluated, factoryCalls>>

(* results.push(tc.eval(context)) *)
PushResult ==
    /\ pc = "tc_ret"
    /\ results' = Append(results, ret[1])
    /\ ret' = None
    /\ i' = i + 1
    /\ pc' = "loop"
    /\ UNCHANGED <<text, parsed, feature, call, j, context, firstResults, evaluated,
                   factoryCalls>>

ReturnOnFailure ==
    /\ pc = "loop"
    /\ \/ i > Len(feature.test_cases)
       \/ results # <<>> /\ ~results[Len(results)].pass
    /\ pc' = "done"
    /\ UNCHANGED <<text, parsed, feature, call, i, j, context, ret, results, firstResults,
                   evaluated, factoryCalls>>

(* the loop is exhausted: results is returned *)
Return ==
    /\ pc = "loop"
    /\ i > Len(feature.test_cases)
    /\ pc' = "done"
    /\ UNCHANGED <<text, parsed, feature, call, i, j, context, ret, results, firstResults,
                   evaluated, factoryCalls>>

(* the caller evaluates the same Feature once more *)
EvalAgain ==
    /\ pc = "done"
    /\ call < MaxCalls
    /\ call' = call + 1
    /\ firstResults' = results
    /\ pc' = "call"
    /\ UNCHANGED <<text, parsed, feature, i, j, context, ret, results, evaluated,
                   factoryCalls>>

EvalNext ==
    \/ Enter
    \/ BeginCase
    \/ EvalStep
    \/ EvalEnd
    \/ MatchBackground
    \/ PushResult
    \/ Return
    \/ EvalAgain

----------------------------------------------------------------------------
(* The Features handed to Feature::eval *)

StepSet == {[kind |-> "Record", num |-> 1],
            [kind |-> "Reject", num |-> 2],
            [kind |-> "Check",  num |-> 1]}

RECURSIVE SeqsOfLen(_, _)
SeqsOfLen(S, n) ==
    IF n = 0 THEN {<<>>} ELSE {Append(q, x) : q \in SeqsOfLen(S, n - 1), x \in S}

CaseNames == <<<<"O", "n", "e">>, <<"T", "w", "o">>, <<"T", "h", "r", "e", "e">>, <<"F", "o", "u", "r">>>>

(* the step sequences of at most n cases holding at most b steps in all *)
RECURSIVE CasesWithin(_, _)
CasesWithin(n, b) ==
    IF n = 0 THEN {<<>>}
    ELSE {<<>>} \cup UNION {{<<s>> \o rest : s \in SeqsOfLen(StepSet, l),
                                              rest \in CasesWithin(n - 1, b - l)} :
                               l \in 0..b}

Node(variant, name, steps) == [variant |-> variant, name |-> name, steps |-> steps]

StrSetup == <<"S", "e", "t", "u", "p">>

(* no Background, or a Background of l steps, named as the cases are *)
Backgrounds(l, named) ==
    (IF l = 0 THEN {None} ELSE {}) \cup
    {Some(Node("Background", IF named THEN Some(StrSetup) ELSE None, s)) :
        s \in SeqsOfLen(StepSet, l)}
    \cup {Some(Node("Scenario", None, s)) : s \in SeqsOfLen(StepSet, l)}

Feature(b, named, cs) ==
    [name |-> <<"F">>, comment |-> <<>>, background |-> b,
     test_cases |-> [k \in 1..Len(cs) |->
                       Node("Scenario", IF named THEN Some(CaseNames[k]) ELSE None, cs[k])]]

----------------------------------------------------------------------------
(* The parsers of combine that the grammar uses.  A parser is applied to    *)
(* the text t at position p and yields [ok, consumed, pos, val]: an error   *)
(* that consumed input is fatal to optional, many, choice and sep_by, an    *)
(* error that consumed nothing makes them take their other branch.          *)

Ok(consumed, p, v) == [ok |-> TRUE, consumed |-> consumed, pos |-> p, val |-> v]

Err(consumed, p) == [ok |-> FALSE, consumed |-> consumed, pos |-> p, val |-> <<>>]

(* Body applied to the value of x, which is computed once *)
Bind(x, Body(_)) == CHOOSE y \in {Body(r) : r \in {x}} : TRUE

(* the error of a later element of a sequence whose earlier elements consumed *)
After(consumedBefore, r) == Err(consumedBefore \/ r.consumed, r.pos)

(* token(c) *)
Token(c, t, p) == IF p <= Len(t) /\ t[p] = c THEN Ok(TRUE, p + 1, c) ELSE Err(FALSE, p)

(* combine::char::newline() *)
Newline(t, p) == Token("\n", t, p)

(* eof() *)
Eof(t, p) == IF p > Len(t) THEN Ok(FALSE, p, <<>>) ELSE Err(FALSE, p)

(* the number of leading characters of s found at p *)
Matched(s, t, p) ==
    Cardinality({k \in 1..Len(s) : \A n \in 1..k : p + n - 1 <= Len(t) /\ t[p + n - 1] = s[n]})

(* string(s): the characters of s one by one; a mismatch after the first   *)
(* character has consumed input                                             *)
String(s, t, p) ==
    Bind(Matched(s, t, p), LAMBDA m :
        IF m = Len(s) THEN Ok(m > 0, p + m, s) ELSE Err(m > 0, p + m))

(* optional(r): None on an error that consumed nothing *)
Optional(r, p) ==
    IF r.ok THEN Ok(r.consumed, r.pos, Some(r.val))
    ELSE IF r.consumed THEN r
    ELSE Ok(FALSE, p, None)

(* try(r): an error consumes nothing *)
Try(r, p) == IF r.ok THEN r ELSE Err(FALSE, p)

----------------------------------------------------------------------------
(* parse_utils.rs *)

(* non_newline(): none_of("\r\n") *)
NonNewline(t, p) ==
    IF p <= Len(t) /\ t[p] \notin {"\r", "\n"} THEN Ok(TRUE, p + 1, t[p]) ELSE Err(FALSE, p)

EolNewlineOnly(t, p) == Newline(t, p)

(* eol(): choice! { newline(), eof() } *)
Eol(t, p) == IF Newline(t, p).ok THEN Newline(t, p) ELSE Eof(t, p)

(* where many(non_newline()) stops *)
ManyNonNewline(t, p) ==
    CHOOSE q \in p..(Len(t) + 1) :
       /\ ~NonNewline(t, q).ok
       /\ \A k \in p..(q - 1) : NonNewline(t, k).ok

(* until_eol(): (many1(non_newline()), eol()).map(|(s, _)| s) *)
UntilEol(t, p) ==
    Bind(ManyNonNewline(t, p), LAMBDA q :
        IF q = p THEN Err(FALSE, p)
        ELSE Bind(Eol(t, q), LAMBDA e :
                 IF ~e.ok THEN Err(TRUE, q) ELSE Ok(TRUE, e.pos, SubSeq(t, p, q - 1))))

(* many(try(until_eol())): the lines and where they end *)
RECURSIVE ManyLines(_, _)
ManyLines(t, p) ==
    Bind(Try(UntilEol(t, p), p), LAMBDA r :
        IF ~r.ok THEN [pos |-> p, lines |-> <<>>]
        ELSE Bind(ManyLines(t, r.pos), LAMBDA rest :
                 [pos |-> rest.pos, lines |-> <<r.val>> \o rest.lines]))

(* lines.join("\n"), from the k-th line on *)
RECURSIVE JoinFrom(_, _)
JoinFrom(lines, k) ==
    IF k > Len(lines) THEN <<>>
    ELSE IF k = Len(lines) THEN lines[k]
    ELSE lines[k] \o <<"\n">> \o JoinFrom(lines, k + 1)

JoinTerminated(lines) == JoinFrom(lines, 1) \o (IF lines = <<>> THEN <<>> ELSE <<"\n">>)

Join(lines) == JoinFrom(lines, 1)

(* line_block() *)
LineBlock(t, p) ==
    Bind(ManyLines(t, p), LAMBDA r : Ok(r.pos > p, r.pos, Join(r.lines)))

----------------------------------------------------------------------------
(* The step producers of the host (parser.rs, tests::do_parse): the letter  *)
(* of the category, then one digit; the Step records the digit.             *)

Categories == <<"Given", "When", "Then">>

LetterOf(cat) == CASE cat = "Given" -> "G" [] cat = "When" -> "W" [] cat = "Then" -> "T"

(* c.to_digit(10) *)
DigitValue == [c \in {"0", "1", "2", "3", "4", "5", "6", "7", "8", "9"} |->
                 CASE c = "0" -> 0 [] c = "1" -> 1 [] c = "2" -> 2 [] c = "3" -> 3
                   [] c = "4" -> 4 [] c = "5" -> 5 [] c = "6" -> 6 [] c = "7" -> 7
                   [] c = "8" -> 8 [] c = "9" -> 9]

(* digit().map(|c| c.to_digit(10).unwrap()) *)
NumDigit(t, p) ==
    IF p <= Len(t) /\ t[p] \in DOMAIN DigitValue THEN Ok(TRUE, p + 1, DigitValue[t[p]])
    ELSE Err(FALSE, p)

(* a BoxedStep; by is history: the producer that made it *)
BoxedStep(num, cat) == [val |-> [kind |-> "Record", num |-> num], by |-> cat]

(* struct_parser! { SampleStep { _: token(letter), num: num_digit() } } *)
Producer(cat, t, p) ==
    Bind(Token(LetterOf(cat), t, p), LAMBDA a :
        IF ~a.ok THEN a
        ELSE Bind(NumDigit(t, a.pos), LAMBDA b :
                 IF ~b.ok THEN After(TRUE, b) ELSE Ok(TRUE, b.pos, BoxedStep(b.val, cat))))

----------------------------------------------------------------------------
(* parser.rs *)

StrAnd == <<"A", "n", "d", " ">>
StrColon == <<":">>
StrFeature == <<"F", "e", "a", "t", "u", "r", "e", ":", " ">>
StrBackground == <<"B", "a", "c", "k", "g", "r", "o", "u", "n", "d">>
StrScenario == <<"S", "c", "e", "n", "a", "r", "i", "o">>

KeywordOf(cat) ==
    CASE cat = "Given" -> <<"G", "i", "v", "e", "n">>
      [] cat = "When" -> <<"W", "h", "e", "n">>
      [] cat = "Then" -> <<"T", "h", "e", "n">>

(* the rest of a step line: (.., inner, eol()) yielding the step of inner *)
StepAndEol(cat, t, p) ==
    Bind(Producer(cat, t, p), LAMBDA c :
        IF ~c.ok THEN After(TRUE, c)
        ELSE Bind(Eol(t, c.pos), LAMBDA d :
                 IF ~d.ok THEN After(TRUE, d) ELSE Ok(TRUE, d.pos, c.val)))

(* first_line: (string(prefix), token(' '), inner.clone(), eol()).map(|t| t.2) *)
FirstLine(cat, t, p) ==
    Bind(String(KeywordOf(cat), t, p), LAMBDA a :
        IF ~a.ok THEN a
        ELSE Bind(Token(" ", t, a.pos), LAMBDA b :
                 IF ~b.ok THEN After(TRUE, b) ELSE StepAndEol(cat, t, b.pos)))

(* and_line: (string("And "), inner, eol()).map(|t| t.1) *)
AndLine(cat, t, p) ==
    Bind(String(StrAnd, t, p), LAMBDA a :
        IF ~a.ok THEN a ELSE StepAndEol(cat, t, a.pos))

(* many(and_line) *)
RECURSIVE ManyAndLines(_, _, _)
ManyAndLines(cat, t, p) ==
    Bind(AndLine(cat, t, p), LAMBDA r :
        IF ~r.ok THEN (IF r.consumed THEN r ELSE Ok(FALSE, p, <<>>))
        ELSE Bind(ManyAndLines(cat, t, r.pos), LAMBDA rest :
                 IF ~rest.ok THEN After(TRUE, rest)
                 ELSE Ok(TRUE, rest.pos, <<r.val>> \o rest.val)))

(* scenario_block(prefix, inner): (first_line, many(and_line)), ands.insert(0, first) *)
ScenarioBlock(cat, t, p) ==
    Bind(FirstLine(cat, t, p), LAMBDA f :
        IF ~f.ok THEN f
        ELSE Bind(ManyAndLines(cat, t, f.pos), LAMBDA m :
                 IF ~m.ok THEN After(TRUE, m) ELSE Ok(TRUE, m.pos, <<f.val>> \o m.val)))

(* optional(block).map(|o| o.unwrap_or(vec![])) *)
OptionalBlock(cat, t, p) ==
    Bind(Optional(ScenarioBlock(cat, t, p), p), LAMBDA o :
        IF ~o.ok THEN o
        ELSE Ok(o.consumed, o.pos, IF o.val = None THEN <<>> ELSE o.val[1]))

(* the three optional blocks, one after the other *)
Blocks(t, p) ==
    Bind(OptionalBlock("Given", t, p), LAMBDA g :
        IF ~g.ok THEN [ok |-> FALSE, err |-> g]
        ELSE Bind(OptionalBlock("When", t, g.pos), LAMBDA w :
                 IF ~w.ok THEN [ok |-> FALSE, err |-> After(g.consumed, w)]
                 ELSE Bind(OptionalBlock("Then", t, w.pos), LAMBDA h :
                          IF ~h.ok
                          THEN [ok |-> FALSE, err |-> After(g.consumed \/ w.consumed, h)]
                          ELSE [ok |-> TRUE, g |-> g.val, w |-> w.val, t |-> h.val,
                                consumed |-> g.consumed \/ w.consumed \/ h.consumed,
                                pos |-> h.pos])))

StepsWhenFirst(t, p) ==
    Bind(Blocks(t, p), LAMBDA b :
        IF ~b.ok THEN b.err ELSE Ok(b.consumed, b.pos, b.w \o b.g \o b.t))

(* steps: (optional(givens), optional(whens), optional(thens))             *)
(*          .map(|(g, w, t)| itertools::concat(vec![g, w, t]))              *)
Steps(t, p) ==
    Bind(Blocks(t, p), LAMBDA b :
        IF ~b.ok THEN b.err ELSE Ok(b.consumed, b.pos, b.g \o b.w \o b.t))

(* str::trim() *)
IsSpace(c) == c \in {" ", "\t", "\n", "\r"}

Trim(x) ==
    LET kept == {k \in 1..Len(x) : ~IsSpace(x[k])}
    IN IF kept = {} THEN <<>>
       ELSE SubSeq(x, CHOOSE k \in kept : \A n \in kept : k <= n,
                      CHOOSE k \in kept : \A n \in kept : k >= n)

ScenarioNameUntrimmed(t, p) ==
    Bind(UntilEol(t, p), LAMBDA u :
        IF u.ok THEN Ok(TRUE, u.pos, Some(u.val))
        ELSE IF u.consumed THEN u
        ELSE Bind(Newline(t, p), LAMBDA n :
                 IF n.ok THEN Ok(TRUE, n.pos, None) ELSE n))

(* name: choice!(until_eol().map(|s| Some(s.trim().to_string())), newline().map(|_| None)) *)
ScenarioName(t, p) ==
    Bind(UntilEol(t, p), LAMBDA u :
        IF u.ok THEN Ok(TRUE, u.pos, Some(Trim(u.val)))
        ELSE IF u.consumed THEN u
        ELSE Bind(Newline(t, p), LAMBDA n :
                 IF n.ok THEN Ok(TRUE, n.pos, None) ELSE n))

(* x.into_iter().map(|s| s.val).collect() *)
Vals(q) == [k \in 1..Len(q) |-> q[k].val]

(* history: the producer of each step *)
Bys(q) == [k \in 1..Len(q) |-> q[k].by]

(* scenario(prefix, given, when, then); cats is history: the producer of each step *)
ScenarioP(prefix, t, p) ==
    Bind(String(prefix, t, p), LAMBDA a :
        IF ~a.ok THEN a
        ELSE Bind(String(StrColon, t, a.pos), LAMBDA b :
                 IF ~b.ok THEN After(TRUE, b)
                 ELSE Bind(ScenarioName(t, b.pos), LAMBDA n :
                          IF ~n.ok THEN After(TRUE, n)
                          ELSE Bind(Steps(t, n.pos), LAMBDA x :
                                   IF ~x.ok THEN After(TRUE, x)
                                   ELSE Ok(TRUE, x.pos, [name |-> n.val,
                                                         steps |-> Vals(x.val),
                                                         cats |-> Bys(x.val)])))))

(* where many(newline()) stops *)
ManyNewline(t, p) ==
    CHOOSE q \in p..(Len(t) + 1) :
       /\ ~Newline(t, q).ok
       /\ \A k \in p..(q - 1) : Newline(t, k).ok

(* blank_lines: many1(newline()) *)
BlankLines(t, p) ==
    Bind(ManyNewline(t, p), LAMBDA q :
        IF q = p THEN Err(FALSE, p) ELSE Ok(TRUE, q, <<>>))

BackgroundAsScenario(t, p) ==
    Bind(ScenarioP(StrBackground, t, p), LAMBDA c :
        IF ~c.ok THEN c
        ELSE Bind(BlankLines(t, c.pos), LAMBDA b :
                 IF ~b.ok THEN After(TRUE, b)
                 ELSE Ok(TRUE, b.pos, [case |-> Node("Scenario", c.val.name, c.val.steps),
                                       cats |-> c.val.cats])))

(* (scenario("Background", ..), blank_lines()).map(|t| TestCase::Background(t.0)) *)
BackgroundAndBlank(t, p) ==
    Bind(ScenarioP(StrBackground, t, p), LAMBDA c :
        IF ~c.ok THEN c
        ELSE Bind(BlankLines(t, c.pos), LAMBDA b :
                 IF ~b.ok THEN After(TRUE, b)
                 ELSE Ok(TRUE, b.pos, [case |-> Node("Background", c.val.name, c.val.steps),
                                       cats |-> c.val.cats])))

(* background: optional(..) *)
BackgroundP(t, p) == Bind(BackgroundAndBlank(t, p), LAMBDA r : Optional(r, p))

(* scenario("Scenario", ..).map(|s| TestCase::Scenario(s)) *)
TestCaseP(t, p) ==
    Bind(ScenarioP(StrScenario, t, p), LAMBDA c :
        IF ~c.ok THEN c
        ELSE Ok(TRUE, c.pos, [case |-> Node("Scenario", c.val.name, c.val.steps),
                              cats |-> c.val.cats]))

(* sep_by, after the first element: many((blank_lines(), test case)) *)
RECURSIVE SepByRest(_, _)
SepByRest(t, p) ==
    Bind(BlankLines(t, p), LAMBDA b :
        IF ~b.ok THEN Ok(FALSE, p, <<>>)
        ELSE Bind(TestCaseP(t, b.pos), LAMBDA c :
                 IF ~c.ok THEN After(TRUE, c)
                 ELSE Bind(SepByRest(t, c.pos), LAMBDA rest :
                          IF ~rest.ok THEN After(TRUE, rest)
                          ELSE Ok(TRUE, rest.pos, <<c.val>> \o rest.val))))

(* test_cases: sep_by(test case, blank_lines()) *)
TestCasesP(t, p) ==
    Bind(TestCaseP(t, p), LAMBDA c :
        IF ~c.ok THEN (IF c.consumed THEN c ELSE Ok(FALSE, p, <<>>))
        ELSE Bind(SepByRest(t, c.pos), LAMBDA rest :
                 IF ~rest.ok THEN After(TRUE, rest)
                 ELSE Ok(TRUE, rest.pos, <<c.val>> \o rest.val)))

Cases(q) == [k \in 1..Len(q) |-> q[k].case]

Cats(q) == [k \in 1..Len(q) |-> q[k].cats]

(* Feature { name, comment, background, test_cases }; cats is history *)
BuildFeature(n, c, b, x) ==
    [feature |-> [name |-> n, comment |-> c,
                  background |-> IF b = None THEN None ELSE Some(b[1].case),
                  test_cases |-> Cases(x)],
     cats |-> [background |-> IF b = None THEN <<>> ELSE b[1].cats,
               test_cases |-> Cats(x)]]

(* the fields of Feature that follow the name *)
FeatureBody(n, t, p) ==
    Bind(LineBlock(t, p), LAMBDA c :
        Bind(BlankLines(t, c.pos), LAMBDA s :
            IF ~s.ok THEN After(TRUE, s)
            ELSE Bind(BackgroundP(t, s.pos), LAMBDA b :
                     IF ~b.ok THEN After(TRUE, b)
                     ELSE Bind(TestCasesP(t, b.pos), LAMBDA x :
                              IF ~x.ok THEN After(TRUE, x)
                              ELSE Ok(TRUE, x.pos, BuildFeature(n, c.val, b.val, x.val))))))

(* feature(given, when, then): struct_parser! { Feature { ... } } *)
FeatureP(t, p) ==
    Bind(Optional(BlankLines(t, p), p), LAMBDA l :
        IF ~l.ok THEN l
        ELSE Bind(String(StrFeature, t, l.pos), LAMBDA f :
                 IF ~f.ok THEN After(l.consumed, f)
                 ELSE Bind(UntilEol(t, f.pos), LAMBDA n :
                          IF ~n.ok THEN After(TRUE, n) ELSE FeatureBody(n.val, t, n.pos))))

(* feature(..).easy_parse(State::new(s)): the Feature and the remaining input, or an error *)
Parse ==
    /\ pc = "parse"
    /\ \E r \in {FeatureP(text, 1)} :
          IF r.ok
          THEN /\ parsed' = [ok |-> TRUE, rest |-> SubSeq(text, r.pos, Len(text)),
                             cats |-> r.val.cats]
               /\ feature' = r.val.feature
               /\ pc' = "call"
          ELSE /\ parsed' = [ok |-> FALSE, rest |-> <<>>, cats |-> <<>>]
               /\ pc' = "parse_error"
               /\ UNCHANGED feature
    /\ UNCHANGED <<text, call, i, j, context, ret, results, firstResults, evaluated,
                   factoryCalls>>

----------------------------------------------------------------------------
(* The texts handed to parser::feature *)

MaxLines == 3

(* the texts of tests::test_parse and tests::test_parse_extra_whitespace *)
TestParseText ==
    <<"\n", "F", "e", "a", "t", "u", "r", "e", ":", " ", "m", "y", " ", "f", "e", "a", "t",
      "u", "r", "e", "\n", "o", "n", "e", "\n", "t", "w", "o", "\n", "\n", "B", "a", "c",
      "k", "g", "r", "o", "u", "n", "d", ":", "\n", "G", "i", "v", "e", "n", " ", "G", "1",
      "\n", "\n", "S", "c", "e", "n", "a", "r", "i", "o", ":", " ", "O", "n", "e", "\n",
      "G", "i", "v", "e", "n", " ", "G", "2", "\n", "W", "h", "e", "n", " ", "W", "3",
      "\n", "T", "h", "e", "n", " ", "T", "4", "\n", "\n", "S", "c", "e", "n", "a", "r",
      "i", "o", ":", " ", "T", "w", "o", "\n", "G", "i", "v", "e", "n", " ", "G", "2",
      "\n", "A", "n", "d", " ", "G", "3", "\n", "W", "h", "e", "n", " ", "W", "4", "\n",
      "A", "n", "d", " ", "W", "5", "\n", "T", "h", "e", "n", " ", "T", "6", "\n", "A",
      "n", "d", " ", "T", "7">>

ExtraWhitespaceText ==
    <<"\n", "F", "e", "a", "t", "u", "r", "e", ":", " ", "m", "y", " ", "f", "e", "a", "t",
      "u", "r", "e", "\n", "\n", "\n", "S", "c", "e", "n", "a", "r", "i", "o", ":", " ",
      "O", "n", "e", "\n", "G", "i", "v", "e", "n", " ", "G", "1", "\n", "W", "h", "e",
      "n", " ", "W", "1", "\n", "T", "h", "e", "n", " ", "T", "1", "\n", "\n", "\n", "S",
      "c", "e", "n", "a", "r", "i", "o", ":", " ", "T", "w", "o", "\n", "G", "i", "v", "e",
      "n", " ", "G", "2", "\n", "W", "h", "e", "n", " ", "W", "2", "\n", "T", "h", "e",
      "n", " ", "T", "2", "\n">>

(* step lines, well formed and not *)
LineGivenG1 == <<"G", "i", "v", "e", "n", " ", "G", "1">>
LineAndG2 == <<"A", "n", "d", " ", "G", "2">>
LineAndG7 == <<"A", "n", "d", " ", "G", "7">>
LineWhenW3 == <<"W", "h", "e", "n", " ", "W", "3">>
LineAndW4 == <<"A", "n", "d", " ", "W", "4">>
LineThenT5 == <<"T", "h", "e", "n", " ", "T", "5">>
LineAndT6 == <<"A", "n", "d", " ", "T", "6">>
LineGivenW3 == <<"G", "i", "v", "e", "n", " ", "W", "3">>

StepLines == {LineGivenG1, LineAndG2, LineAndG7, LineWhenW3, LineAndW4, LineThenT5,
              LineAndT6, LineGivenW3}

(* a header, a blank line and the header of one Scenario *)
OneScenarioHead == <<"F", "e", "a", "t", "u", "r", "e", ":", " ", "F", "\n", "\n", "S", "c", "e", "n", "a", "r", "i", "o", ":", " ", "A", "\n">>

(* the lines from the k-th on, each followed by a line terminator *)
RECURSIVE UnlinesFrom(_, _)
UnlinesFrom(lines, k) ==
    IF k > Len(lines) THEN <<>> ELSE lines[k] \o <<"\n">> \o UnlinesFrom(lines, k + 1)

Unlines(lines) == UnlinesFrom(lines, 1)

(* one Scenario with the step lines of body, with or without the last line terminator *)
BodyText(body, terminated) ==
    Bind(OneScenarioHead \o Unlines(body), LAMBDA x :
        IF terminated THEN x ELSE SubSeq(x, 1, Len(x) - 1))

EmptyFeature == [name |-> <<>>, comment |-> <<>>, background |-> None, test_cases |-> <<>>]

InitParse ==
    /\ \/ text \in {TestParseText, ExtraWhitespaceText}
       \/ \E n \in 0..MaxLines :
            \E body \in SeqsOfLen(StepLines, n), terminated \in BOOLEAN :
               text = BodyText(body, terminated)
    /\ parsed = NotParsed
    /\ feature = EmptyFeature
    /\ pc = "parse"
    /\ call = 1
    /\ i = 1
    /\ j = 1
    /\ context = NewContext
    /\ ret = None
    /\ results = <<>>
    /\ firstResults = <<>>
    /\ evaluated = <<>>
    /\ factoryCalls = 0

Init ==
    /\ \E l \in 0..MaxTotalSteps :
         \E named \in BOOLEAN :
           \E b \in Backgrounds(l, named), cs \in CasesWithin(MaxCases, MaxTotalSteps - l) :
              feature = Feature(b, named, cs)
    /\ text = <<>>
    /\ parsed = NotParsed
    /\ pc = "call"
    /\ call = 1
    /\ i = 1
    /\ j = 1
    /\ context = NewContext
    /\ ret = None
    /\ results = <<>>
    /\ firstResults = <<>>
    /\ evaluated = <<>>
    /\ factoryCalls = 0

Next == EvalNext

Spec == Init /\ [][Next]_vars

NextParse == Parse \/ EvalNext

ParseSpec == InitParse /\ [][NextParse]_vars

----------------------------------------------------------------------------
(* Whole texts: a first line, then up to MaxBodyLines lines, each followed  *)
(* by its line terminator.                                                  *)

MaxBodyLines == 4

LineBlank == <<>>
LineComment == <<"o", "n", "e">>
LineBackground == <<"B", "a", "c", "k", "g", "r", "o", "u", "n", "d", ":">>
LineScenario == <<"S", "c", "e", "n", "a", "r", "i", "o", ":">>
LineScenarioA == <<"S", "c", "e", "n", "a", "r", "i", "o", ":", " ", " ", "A", " ">>

BodyLineSet == {LineBlank, LineComment, LineBackground, LineScenario, LineScenarioA,
                LineGivenG1, LineWhenW3, LineGivenW3}

(* the header line, alone, after a blank line, and without its space *)
HeadFeature == <<"F", "e", "a", "t", "u", "r", "e", ":", " ", "F", "\n">>
HeadBlankFeature == <<"\n", "F", "e", "a", "t", "u", "r", "e", ":", " ", "F", "\n">>
HeadNoSpace == <<"F", "e", "a", "t", "u", "r", "e", ":", "F", "\n">>

HeadSet == {HeadFeature, HeadBlankFeature, HeadNoSpace}

InitGrammar ==
    /\ \/ text \in {TestParseText, ExtraWhitespaceText}
       \/ \E n \in 0..MaxBodyLines :
            \E head \in HeadSet, body \in SeqsOfLen(BodyLineSet, n) :
               text = head \o Unlines(body)
    /\ parsed = NotParsed
    /\ feature = EmptyFeature
    /\ pc = "parse"
    /\ call = 1
    /\ i = 1
    /\ j = 1
    /\ context = NewContext
    /\ ret = None
    /\ results = <<>>
    /\ firstResults = <<>>
    /\ evaluated = <<>>
    /\ factoryCalls = 0

GrammarSpec == InitGrammar /\ [][NextParse]_vars

----------------------------------------------------------------------------
(* The legacy modules feature.rs and scenario.rs: a Feature is name,        *)
(* comment and test_cases, without a Background; eval returns (bool, C),    *)
(* held in ret as [pass, context].                                          *)

(* impl TestCase for Scenario: { name, steps } *)
LegacyScenario(name, steps) == [name |-> name, steps |-> steps]

LegacyFeature(cs) ==
    [name |-> <<"F">>, comment |-> <<>>,
     test_cases |-> [k \in 1..Len(cs) |-> LegacyScenario(CaseNames[k], cs[k])]]

(* the Feature of tests::scenario: G1 W1 T1 and G2 W2 T2, every Step recording its number *)
LegacyTestFeature ==
    LegacyFeature(<<[k \in 1..3 |-> [kind |-> "Record", num |-> 1]],
                    [k \in 1..3 |-> [kind |-> "Record", num |-> 2]]>>)

(* pub fn eval(&self) -> (bool, C) { let mut context = C::new(); *)
LegacyEnter ==
    /\ pc = "legacy_call"
    /\ context' = NewContext
    /\ factoryCalls' = factoryCalls + 1
    /\ i' = 1
    /\ pc' = "legacy_loop"
    /\ UNCHANGED <<text, parsed, feature, call, j, ret, results, firstResults, evaluated>>

LegacyBeginCaseFresh ==
    /\ pc = "legacy_loop"
    /\ i <= Len(feature.test_cases)
    /\ context' = NewContext
    /\ j' = 1
    /\ pc' = "legacy_tc"
    /\ UNCHANGED <<text, parsed, feature, call, i, ret, results, firstResults, evaluated,
                   factoryCalls>>

(* for tc in self.test_cases.iter() { ... tc.eval(context) *)
LegacyBeginCase ==
    /\ pc = "legacy_loop"
    /\ i <= Len(feature.test_cases)
    /\ j' = 1
    /\ pc' = "legacy_tc"
    /\ UNCHANGED <<text, parsed, feature, call, i, context, ret, results, firstResults,
                   evaluated, factoryCalls>>

(* scenario.rs, Scenario::eval: one iteration of for s in self.steps.iter() *)
LegacyEvalStep ==
    /\ pc = "legacy_tc"
    /\ j <= Len(feature.test_cases[i].steps)
    /\ LET r == StepEval(feature.test_cases[i].steps[j], context)
       IN /\ context' = r.context
          /\ evaluated' = Append(evaluated, [case |-> i, of |-> "tc", idx |-> j, ok |-> r.ok])
          /\ IF r.ok
             THEN /\ j' = j + 1
                  /\ UNCHANGED <<pc, ret>>
             ELSE /\ ret' = Some([pass |-> FALSE, context |-> r.context])
                  /\ pc' = "legacy_tc_ret"
                  /\ UNCHANGED j
    /\ UNCHANGED <<text, parsed, feature, call, i, results, firstResults, factoryCalls>>

(* scenario.rs, Scenario::eval: the loop ran to its end: (true, context) *)
LegacyEvalEnd ==
    /\ pc = "legacy_tc"
    /\ j > Len(feature.test_cases[i].steps)
    /\ ret' = Some([pass |-> TRUE, context |-> context])
    /\ pc' = "legacy_tc_ret"
    /\ UNCHANGED <<text, parsed, feature, call, i, j, context, results, firstResults,
                   evaluated, factoryCalls>>

(* let (pass, context_) = ..; context = context_; if !pass { return (false, context); } *)
LegacyMatch ==
    /\ pc = "legacy_tc_ret"
    /\ context' = ret[1].context
    /\ IF ~ret[1].pass
       THEN /\ ret' = Some([pass |-> FALSE, context |-> ret[1].context])
            /\ pc' = "legacy_done"
            /\ UNCHANGED i
       ELSE /\ ret' = None
            /\ i' = i + 1
            /\ pc' = "legacy_loop"
    /\ UNCHANGED <<text, parsed, feature, call, j, results, firstResults, evaluated,
                   factoryCalls>>

(* the loop is exhausted: (true, context) *)
LegacyReturn ==
    /\ pc = "legacy_loop"
    /\ i > Len(feature.test_cases)
    /\ ret' = Some([pass |-> TRUE, context |-> context])
    /\ pc' = "legacy_done"
    /\ UNCHANGED <<text, parsed, feature, call, i, j, context, results, firstResults,
                   evaluated, factoryCalls>>

LegacyInit ==
    /\ \/ feature = LegacyTestFeature
       \/ \E cs \in CasesWithin(MaxCases, MaxTotalSteps) : feature = LegacyFeature(cs)
    /\ text = <<>>
    /\ parsed = NotParsed
    /\ pc = "legacy_call"
    /\ call = 1
    /\ i = 1
    /\ j = 1
    /\ context = NewContext
    /\ ret = None
    /\ results = <<>>
    /\ firstResults = <<>>
    /\ evaluated = <<>>
    /\ factoryCalls = 0

LegacyNext ==
    \/ LegacyEnter
    \/ LegacyBeginCase
    \/ LegacyEvalStep
    \/ LegacyEvalEnd
    \/ LegacyMatch
    \/ LegacyReturn

LegacySpec == LegacyInit /\ [][LegacyNext]_vars

----------------------------------------------------------------------------
(* Vocabulary of the properties *)

NumCases == Len(feature.test_cases)

(* the Step::eval calls made for case k, in the order they were made *)
EntriesOf(k) == SelectSeq(evaluated, LAMBDA e : e.case = k)

BgEntriesOf(k) == SelectSeq(evaluated, LAMBDA e : e.case = k /\ e.of = "bg")

TcEntriesOf(k) == SelectSeq(evaluated, LAMBDA e : e.case = k /\ e.of = "tc")

(* a Background step returned false during the Background attempt of case k *)
BgFailedFor(k) == \E n \in 1..Len(evaluated) :
                     evaluated[n].case = k /\ evaluated[n].of = "bg" /\ ~evaluated[n].ok

(* the Step an entry of the history stands for *)
StepAt(e) == IF e.of = "bg" THEN feature.background[1].steps[e.idx]
             ELSE feature.test_cases[e.case].steps[e.idx]

(* the Context after the steps of the entries were applied, in order, to c *)
RECURSIVE Replay(_, _)
Replay(entries, c) ==
    IF entries = <<>> THEN c
    ELSE Replay(Tail(entries), StepEval(StepAt(Head(entries)), c).context)

(* steps[k..] evaluated in order on c, stopping at the first false *)
RECURSIVE RunSteps(_, _, _)
RunSteps(steps, k, c) ==
    IF k > Len(steps) THEN [pass |-> TRUE, context |-> c]
    ELSE LET r == StepEval(steps[k], c)
         IN IF r.ok THEN RunSteps(steps, k + 1, r.context)
            ELSE [pass |-> FALSE, context |-> r.context]

(* the result of one Scenario evaluated on its own behind the Background *)
AloneResult(f, tc) ==
    LET b == IF HasBackground(f) THEN RunSteps(f.background[1].steps, 1, NewContext)
             ELSE [pass |-> TRUE, context |-> NewContext]
        t == RunSteps(tc.steps, 1, b.context)
    IN IF ~b.pass THEN TestResult(StrBackgroundMarker, FALSE, b.context)
       ELSE TestResult(NameOrEmpty(tc.name), t.pass, t.context)

(* the indices n, n+1, ... of a run of entries are 1, 2, ... *)
CountsUp(entries) == \A n \in 1..Len(entries) : entries[n].idx = n

----------------------------------------------------------------------------
(* C1: Feature::eval returns exactly one TestResult per entry of            *)
(* test_cases, the k-th result being that of the k-th Scenario (it carries  *)
(* that Scenario's name, or "<Background>" when the Background failed for   *)
(* it), whether the Background is absent, passes or fails.                  *)
C1_OneResultPerCase ==
    /\ pc = "done" => Len(results) = NumCases
    /\ pc \in {"loop", "bg", "bg_ret", "tc", "tc_ret"} => Len(results) = i - 1
    /\ pc # "parse" /\ pc # "parse_error" =>
         \A k \in 1..Len(results) :
            /\ k <= NumCases
            /\ results[k].test_case_name =
                 IF BgFailedFor(k) THEN StrBackgroundMarker
                 ELSE NameOrEmpty(feature.test_cases[k].name)

C1_Witness ==
    /\ pc = "done"
    /\ NumCases = 2
    /\ HasBackground(feature)
    /\ Len(results) = 2
    /\ results[1].test_case_name = CaseNames[1] /\ ~results[1].pass
    /\ results[2].test_case_name = CaseNames[2] /\ results[2].pass

(* C2: when a Background step returns false during the Background attempt  *)
(* of a Scenario, that Scenario's result is named "<Background>" whatever   *)
(* the names of the Background and of the Scenario, has pass = false, and   *)
(* none of the Scenario's own steps is evaluated.                           *)
C2_BackgroundFailure ==
    pc # "parse" /\ pc # "parse_error" =>
      \A k \in 1..NumCases :
         BgFailedFor(k) =>
            /\ TcEntriesOf(k) = <<>>
            /\ k <= Len(results) =>
                 /\ results[k].test_case_name = StrBackgroundMarker
                 /\ ~results[k].pass

C2_Witness ==
    /\ pc = "done"
    /\ NumCases = 2
    /\ HasBackground(feature)
    /\ feature.background[1].name = Some(StrSetup)
    /\ feature.test_cases[1].name = Some(CaseNames[1])
    /\ feature.test_cases[1].steps # <<>>
    /\ BgFailedFor(1) /\ BgFailedFor(2)
    /\ results[1].test_case_name = StrBackgroundMarker
    /\ results[2].test_case_name = StrBackgroundMarker

(* C3: every Scenario is evaluated on a Context of its own, built by one   *)
(* factory call per Scenario, with a Background attempt of its own: each    *)
(* result is the one the Scenario yields when evaluated alone behind the    *)
(* Background, whatever the other Scenarios do, and a failure does not stop *)
(* the evaluation of the Scenarios that follow.                             *)
C3_Isolation ==
    pc # "parse" /\ pc # "parse_error" =>
      /\ \A k \in 1..Len(results) :
            k <= NumCases /\ results[k] = AloneResult(feature, feature.test_cases[k])
      /\ pc \in {"bg", "bg_ret", "tc", "tc_ret"} => factoryCalls = i
      /\ pc \in {"loop", "done"} => factoryCalls = i - 1
      /\ pc \in {"bg", "tc"} /\ EntriesOf(i) = <<>> => context = NewContext
      /\ pc = "loop" /\ i <= NumCases => ENABLED BeginCase
      /\ pc = "done" => Len(results) = NumCases /\ factoryCalls = NumCases

C3_Witness ==
    /\ pc = "done"
    /\ NumCases = 2
    /\ ~results[1].pass
    /\ results[1].context # NewContext
    /\ results[2].pass
    /\ results[2].context # NewContext
    /\ factoryCalls = 2

(* C4: within one case the steps are evaluated one at a time in the order  *)
(* of the step sequence, the Background's before the Scenario's; once a     *)
(* step has returned false no later step of the case is evaluated; the      *)
(* result passes iff every evaluated step returned true.                    *)
C4_SequentialFailFast ==
    pc # "parse" /\ pc # "parse_error" =>
      \A k \in 1..NumCases :
         LET es == EntriesOf(k)
         IN /\ es = BgEntriesOf(k) \o TcEntriesOf(k)
            /\ CountsUp(BgEntriesOf(k))
            /\ CountsUp(TcEntriesOf(k))
            /\ \A n \in 1..Len(es) : ~es[n].ok => n = Len(es)
            /\ k <= Len(results) =>
                 (results[k].pass <=> \A n \in 1..Len(es) : es[n].ok)

C4_Witness ==
    /\ pc = "done"
    /\ NumCases >= 1
    /\ HasBackground(feature)
    /\ Len(feature.test_cases[1].steps) = 2
    /\ Len(BgEntriesOf(1)) = 1
    /\ Len(TcEntriesOf(1)) = 1
    /\ ~TcEntriesOf(1)[1].ok
    /\ ~results[1].pass

(* C5: the context of every result is the fresh Context as mutated by      *)
(* exactly the steps that were attempted for its case, the first failing    *)
(* step included; a Background failure keeps the mutations the Background   *)
(* made, it is not reset.                                                   *)
C5_ContextOfResult ==
    pc # "parse" /\ pc # "parse_error" =>
      \A k \in 1..Len(results) :
         /\ results[k].context = Replay(EntriesOf(k), NewContext)
         /\ ~results[k].pass =>
              /\ EntriesOf(k) # <<>>
              /\ ~EntriesOf(k)[Len(EntriesOf(k))].ok

C5_Witness ==
    /\ pc = "done"
    /\ NumCases >= 1
    /\ BgFailedFor(1)
    /\ Len(BgEntriesOf(1)) = 2
    /\ results[1].context = <<1, 2>>

(* C6: when all Background steps return true the Scenario's own steps      *)
(* start from the Context the Background left, so the result's context is  *)
(* that of the Background's steps followed by the Scenario's, and the       *)
(* result is named after the Scenario.                                      *)
C6_BackgroundSuccess ==
    pc # "parse" /\ pc # "parse_error" =>
      /\ pc = "tc" /\ HasBackground(feature) /\ TcEntriesOf(i) = <<>> =>
           context = RunSteps(feature.background[1].steps, 1, NewContext).context
      /\ \A k \in 1..Len(results) :
            HasBackground(feature) /\ ~BgFailedFor(k) =>
               /\ Len(BgEntriesOf(k)) = Len(feature.background[1].steps)
               /\ results[k].test_case_name = NameOrEmpty(feature.test_cases[k].name)
               /\ results[k].context =
                    RunSteps(feature.test_cases[k].steps, 1,
                             RunSteps(feature.background[1].steps, 1, NewContext).context).context

C6_Witness ==
    /\ pc = "done"
    /\ NumCases >= 1
    /\ HasBackground(feature)
    /\ feature.background[1].name = Some(StrSetup)
    /\ Len(BgEntriesOf(1)) = 1
    /\ Len(TcEntriesOf(1)) = 2
    /\ results[1].pass
    /\ results[1].test_case_name = CaseNames[1]
    /\ results[1].context = <<1, 1, 1>>

(* C7: in a Feature without Background a Scenario with no steps yields     *)
(* pass = true and the Context the factory returned.                        *)
C7_EmptyScenario ==
    pc # "parse" /\ pc # "parse_error" =>
      \A k \in 1..Len(results) :
         feature.background = None /\ feature.test_cases[k].steps = <<>> =>
            results[k].pass /\ results[k].context = NewContext

C7_Witness ==
    /\ pc = "done"
    /\ feature.background = None
    /\ NumCases = 2
    /\ feature.test_cases[1].steps # <<>>
    /\ results[1].context # NewContext
    /\ feature.test_cases[2].steps = <<>>
    /\ results[2].pass

(* C8: two calls of Feature::eval on the same Feature return equal         *)
(* TestResult sequences (length, names, pass flags, contexts), and          *)
(* evaluation leaves the Feature unchanged.                                 *)
C8_Deterministic ==
    /\ [](call > 1 /\ pc = "done" => results = firstResults)
    /\ [][pc # "parse" => feature' = feature]_vars

C8_Witness ==
    /\ call = 2
    /\ pc = "done"
    /\ Len(results) = 2
    /\ ~results[1].pass
    /\ results[2].context # NewContext
    /\ results = firstResults

----------------------------------------------------------------------------
(* Vocabulary of the properties of the grammar *)

(* the lines of x, without their terminators *)
RECURSIVE SplitLines(_)
SplitLines(x) ==
    IF x = <<>> THEN <<>>
    ELSE LET q == ManyNonNewline(x, 1)
         IN <<SubSeq(x, 1, q - 1)>> \o SplitLines(SubSeq(x, q + 1, Len(x)))

(* the text is OneScenarioHead followed by step lines *)
HasOneScenarioHead ==
    /\ Len(text) >= Len(OneScenarioHead) - 1
    /\ SubSeq(text, 1, Len(OneScenarioHead) - 1) =
         SubSeq(OneScenarioHead, 1, Len(OneScenarioHead) - 1)

(* the step lines that follow the Scenario header *)
BodyLines == SplitLines(SubSeq(text, Len(OneScenarioHead) + 1, Len(text)))

(* the line is "<letter><digit>" behind the given prefix *)
IsStepLine(prefix, letter, l) ==
    /\ Len(l) = Len(prefix) + 2
    /\ SubSeq(l, 1, Len(prefix)) = prefix
    /\ l[Len(prefix) + 1] = letter
    /\ l[Len(prefix) + 2] \in DOMAIN DigitValue

(* "<Keyword> <step text>" with a step text the producer of cat accepts *)
IsKeywordLine(cat, l) == IsStepLine(KeywordOf(cat) \o <<" ">>, LetterOf(cat), l)

(* "And <step text>" with a step text the producer of cat accepts *)
IsAndLine(cat, l) == IsStepLine(StrAnd, LetterOf(cat), l)

(* "And <step text>" with a step text of some category *)
IsSomeAndLine(l) == \E k \in 1..3 : IsAndLine(Categories[k], l)

(* one keyword line of cat followed by And lines of cat only *)
IsBlock(cat, b) ==
    /\ b # <<>>
    /\ IsKeywordLine(cat, b[1])
    /\ \A k \in 2..Len(b) : IsAndLine(cat, b[k])

NumOf(l) == DigitValue[l[Len(l)]]

Rank(cat) == CASE cat = "Given" -> 1 [] cat = "When" -> 2 [] cat = "Then" -> 3

(* the categories of the steps of every parsed Scenario and Background *)
ParsedCats == <<parsed.cats.background>> \o parsed.cats.test_cases

(* a Given-block, then a When-block, then a Then-block, each possibly absent *)
IsOrderedBody(b) ==
    \E m \in 0..Len(b), n \in 0..Len(b) :
       /\ m <= n
       /\ m = 0 \/ IsBlock("Given", SubSeq(b, 1, m))
       /\ n = m \/ IsBlock("When", SubSeq(b, m + 1, n))
       /\ n = Len(b) \/ IsBlock("Then", SubSeq(b, n + 1, Len(b)))

(* C9: a step block of one keyword line followed by k "And" lines parses   *)
(* to exactly k+1 Steps in source order, each made by the producer of the   *)
(* block's keyword, whether or not the last line has a line terminator; an  *)
(* "And" line whose text the block's producer rejects is a parse failure;   *)
(* when the keyword line does not match, the block yields no steps.         *)
C9_StepBlock ==
    /\ pc # "parse" /\ HasOneScenarioHead =>
         LET b == BodyLines
         IN /\ \A k \in 1..3 :
                  IsBlock(Categories[k], b) =>
                     /\ parsed.ok
                     /\ parsed.rest = <<>>
                     /\ Len(feature.test_cases) = 1
                     /\ Len(feature.test_cases[1].steps) = Len(b)
                     /\ \A n \in 1..Len(b) :
                           /\ feature.test_cases[1].steps[n].num = NumOf(b[n])
                           /\ parsed.cats.test_cases[1][n] = Categories[k]
            /\ \A k \in 1..3 :
                  /\ b # <<>>
                  /\ IsKeywordLine(Categories[k], b[1])
                  /\ \A n \in 2..Len(b) : IsSomeAndLine(b[n])
                  /\ \E n \in 2..Len(b) : ~IsAndLine(Categories[k], b[n])
                  => ~parsed.ok
            /\ b # <<>> /\ (\A k \in 1..3 : ~IsKeywordLine(Categories[k], b[1])) =>
                  \/ ~parsed.ok
                  \/ Len(feature.test_cases) = 1 /\ feature.test_cases[1].steps = <<>>
            /\ parsed.ok =>
                  /\ Len(feature.test_cases) = 1
                  /\ Len(feature.test_cases[1].steps) <= Len(b)
                  /\ \A n \in 1..Len(feature.test_cases[1].steps) :
                        feature.test_cases[1].steps[n].num = NumOf(b[n])
    /\ pc # "parse" /\ text = TestParseText =>
         /\ parsed.ok
         /\ parsed.cats.test_cases[2] = <<"Given", "Given", "When", "When", "Then", "Then">>
         /\ feature.test_cases[2].steps = [n \in 1..6 |-> [kind |-> "Record", num |-> n + 1]]

C9_Witness ==
    /\ pc = "call"
    /\ text = BodyText(<<LineGivenG1, LineAndG2, LineAndG7>>, FALSE)
    /\ parsed.ok
    /\ feature.test_cases[1].steps = <<[kind |-> "Record", num |-> 1],
                                       [kind |-> "Record", num |-> 2],
                                       [kind |-> "Record", num |-> 7]>>
    /\ parsed.cats.test_cases[1] = <<"Given", "Given", "Given">>

(* C10: the step sequence of every parsed Scenario or Background is the    *)
(* Given-block's steps, then the When-block's, then the Then-block's, an    *)
(* absent block contributing none: no parsed sequence has a When step       *)
(* before a Given step or a Then step before a Given or When step, whatever *)
(* the order of the lines in the text.                                      *)
C10_BlockOrder ==
    /\ pc # "parse" /\ parsed.ok =>
         \A k \in 1..Len(ParsedCats) :
            \A m \in 1..Len(ParsedCats[k]), n \in 1..Len(ParsedCats[k]) :
               m < n => Rank(ParsedCats[k][m]) <= Rank(ParsedCats[k][n])
    /\ pc # "parse" /\ HasOneScenarioHead /\ IsOrderedBody(BodyLines) =>
         /\ parsed.ok
         /\ parsed.rest = <<>>
         /\ Len(feature.test_cases) = 1
         /\ Len(feature.test_cases[1].steps) = Len(BodyLines)
         /\ \A n \in 1..Len(BodyLines) :
               /\ feature.test_cases[1].steps[n].num = NumOf(BodyLines[n])
               /\ \E c \in 1..3 :
                     /\ parsed.cats.test_cases[1][n] = Categories[c]
                     /\ IsKeywordLine(Categories[c], BodyLines[n])
                          \/ IsAndLine(Categories[c], BodyLines[n])

C10_Witness ==
    /\ pc = "call"
    /\ text = BodyText(<<LineWhenW3, LineThenT5, LineGivenG1>>, TRUE)
    /\ parsed.ok
    /\ parsed.cats.test_cases = <<<<"When", "Then">>>>
    /\ parsed.rest = LineGivenG1 \o <<"\n">>

----------------------------------------------------------------------------
(* Vocabulary of the whole text, read line by line *)

StartsWith(l, prefix) == Len(l) >= Len(prefix) /\ SubSeq(l, 1, Len(prefix)) = prefix

(* the first line that is not blank: the header line of an accepted text *)
HeaderAt(ls) == CHOOSE h \in 1..Len(ls) : ls[h] # <<>> /\ \A k \in 1..(h - 1) : ls[k] = <<>>

(* the first blank line behind line h: the end of the comment block *)
BlankAfter(ls, h) ==
    CHOOSE b \in (h + 1)..Len(ls) : ls[b] = <<>> /\ \A k \in (h + 1)..(b - 1) : ls[k] # <<>>

(* the lines "Scenario:..." among ls, in source order *)
ScenarioHeaders(ls) == SelectSeq(ls, LAMBDA l : StartsWith(l, StrScenario \o StrColon))

(* x is r without its leading and trailing whitespace *)
IsTrimOf(x, r) ==
    \E a \in 1..(Len(r) + 1), b \in 0..Len(r) :
       /\ x = SubSeq(r, a, b)
       /\ \A k \in 1..(a - 1) : IsSpace(r[k])
       /\ \A k \in (b + 1)..Len(r) : IsSpace(r[k])
       /\ x # <<>> => ~IsSpace(x[1]) /\ ~IsSpace(x[Len(x)])

(* C11: a header "Scenario:" directly followed by a line break parses to a  *)
(* Scenario with no name, whose TestResult reports the empty string as      *)
(* test_case_name; a header with text behind the colon parses to a Scenario *)
(* named by that rest of the line without its surrounding whitespace, and   *)
(* its TestResult reports that name.                                        *)
C11_ScenarioName ==
    pc \in {"call", "done"} /\ parsed.ok =>
       LET ls == SplitLines(text)
           b == BlankAfter(ls, HeaderAt(ls))
           hs == ScenarioHeaders(SubSeq(ls, b + 1, Len(ls)))
       IN /\ Len(hs) >= NumCases
          /\ \A n \in 1..NumCases :
                LET r == SubSeq(hs[n], Len(StrScenario) + 2, Len(hs[n]))
                    name == feature.test_cases[n].name
                IN /\ r = <<>> =>
                        /\ name = None
                        /\ pc = "done" => results[n].test_case_name = <<>>
                   /\ r # <<>> =>
                        /\ name # None
                        /\ IsTrimOf(name[1], r)
                        /\ pc = "done" => results[n].test_case_name = name[1]

C11_Witness ==
    /\ pc = "done"
    /\ text = HeadFeature \o Unlines(<<LineBlank, LineScenario, LineBlank, LineScenarioA>>)
    /\ NumCases = 2
    /\ feature.test_cases[1].name = None
    /\ feature.test_cases[2].name = Some(<<"A">>)
    /\ results[1].test_case_name = <<>>
    /\ results[2].test_case_name = <<"A">>

(* C12: the Feature grammar accepts a text only if it holds one or more     *)
(* Scenario nodes behind the header, the comment block, the separator and   *)
(* the optional Background: every parsed Feature has a test_cases list that *)
(* is not empty.                                                            *)
C12_AtLeastOneScenario == parsed.ok => NumCases >= 1

(* C13: a malformed text yields no Feature: parser::feature never returns a *)
(* Feature built from a prefix of the text, leaving the rest of the text    *)
(* unread (stated here for the Features that hold a Scenario).              *)
C13_NoFeatureFromPrefix == parsed.ok /\ NumCases >= 1 => parsed.rest = <<>>

(* C14: every Feature produced by parser::feature has at most one           *)
(* Background: its background field is absent or holds the Background       *)
(* variant, every element of test_cases holds the Scenario variant, and     *)
(* Feature::eval emits results for the elements of test_cases only: a       *)
(* Background that passes gets no result of its own.                        *)
C14_OneBackground ==
    parsed.ok =>
       /\ \/ feature.background = None
          \/ (Len(feature.background) = 1 /\ feature.background[1].variant = "Background")
       /\ \A k \in 1..NumCases : feature.test_cases[k].variant = "Scenario"
       /\ Len(results) <= NumCases
       /\ pc = "done" =>
            /\ Len(results) = NumCases
            /\ \A k \in 1..NumCases :
                  ~BgFailedFor(k) =>
                     results[k].test_case_name = NameOrEmpty(feature.test_cases[k].name)

C14_Witness ==
    /\ pc = "done"
    /\ text = TestParseText
    /\ parsed.ok
    /\ HasBackground(feature)
    /\ BgEntriesOf(1) # <<>> /\ BgEntriesOf(2) # <<>>
    /\ Len(results) = 2
    /\ results[1].test_case_name = <<"O", "n", "e">>
    /\ results[2].test_case_name = <<"T", "w", "o">>

(* the number of characters of the lines 1..k, line terminators included *)
RECURSIVE Through(_, _)
Through(ls, k) == IF k = 0 THEN 0 ELSE Len(ls[k]) + 1 + Through(ls, k - 1)

(* the characters of the text between line h and the blank line b, without *)
(* the terminator of the last of them                                      *)
CommentOf(ls, h, b) ==
    IF b = h + 1 THEN <<>> ELSE SubSeq(text, Through(ls, h) + 1, Through(ls, b - 1) - 1)

(* the first line behind line b that is not blank, 0 when there is none *)
ContentAfter(ls, b) ==
    IF \A k \in (b + 1)..Len(ls) : ls[k] = <<>> THEN 0
    ELSE CHOOSE c \in (b + 1)..Len(ls) : ls[c] # <<>> /\ \A k \in (b + 1)..(c - 1) : ls[k] = <<>>

(* t without its leading blank lines and with one blank line for every run of them *)
Squeeze(t) ==
    LET dropped(k) == /\ t[k] = "\n"
                      /\ \/ \A n \in 1..(k - 1) : t[n] = "\n"
                         \/ (k >= 3 /\ t[k - 1] = "\n" /\ t[k - 2] = "\n")
        kept == SelectSeq([k \in 1..Len(t) |-> k], LAMBDA k : ~dropped(k))
    IN [n \in 1..Len(kept) |-> t[kept[n]]]

(* C15: the comment of a parsed Feature is exactly the lines between the    *)
(* "Feature: " line and the first blank line behind it, joined by single    *)
(* "\n" without a trailing terminator, and empty when a blank line follows  *)
(* the header directly; the block leaves the blank line unread, so that a   *)
(* Background or Scenario header behind the blank lines is parsed as such;  *)
(* blank lines before "Feature: " and runs of several blank lines between   *)
(* the sections change neither the acceptance nor the Feature.              *)
C15_CommentBlock ==
    /\ pc = "call" /\ parsed.ok =>
         LET ls == SplitLines(text)
             h == HeaderAt(ls)
             b == BlankAfter(ls, h)
             c == ContentAfter(ls, b)
         IN /\ StartsWith(ls[h], StrFeature)
            /\ feature.name = SubSeq(ls[h], Len(StrFeature) + 1, Len(ls[h]))
            /\ feature.comment = CommentOf(ls, h, b)
            /\ c # 0 /\ StartsWith(ls[c], StrBackground \o StrColon) => HasBackground(feature)
            /\ c # 0 /\ StartsWith(ls[c], StrScenario \o StrColon) =>
                  feature.background = None /\ NumCases >= 1
    /\ pc \in {"call", "parse_error"} /\ call = 1 /\ text # <<>> =>
         LET q == Squeeze(text)
             r == FeatureP(q, 1)
         IN q # text =>
               /\ r.ok = parsed.ok
               /\ r.ok => r.val.feature = feature

C15_Witness ==
    /\ pc = "call"
    /\ text = HeadBlankFeature \o Unlines(<<LineComment, LineComment, LineBlank, LineScenario>>)
    /\ parsed.ok
    /\ feature.comment = <<"o", "n", "e", "\n", "o", "n", "e">>
    /\ NumCases = 1
    /\ call = 1
    /\ FeatureP(Squeeze(text), 1).val.feature = feature

----------------------------------------------------------------------------
(* the steps of the test cases k.., one test case after the other *)
RECURSIVE StepsFrom(_, _)
StepsFrom(cases, k) ==
    IF k > Len(cases) THEN <<>> ELSE cases[k].steps \o StepsFrom(cases, k + 1)

(* the history entry comes before the other in source order *)
Before(d, e) == d.case < e.case \/ (d.case = e.case /\ d.idx < e.idx)

====
